---- MODULE Spec2Model ----
(***************************************************************************)
(* A model of the Teller banking integration: the ledger store written by  *)
(* scripts/sync.py, the page fetcher of teller_integration/client.py and   *)
(* the balance reconstruction of scripts/balance_history.py.               *)
(*                                                                         *)
(* Money is counted in cents (the store keeps DECIMAL(15,2)); a date is    *)
(* the day of January 2024 (2024-01-05 is 5); a timestamp is counted in    *)
(* ticks, TicksPerDay of them to a day.                                    *)
(***************************************************************************)
EXTENDS Integers, Sequences, FiniteSets, Bags, TLC

VARIABLES
    transactions,   \* table transactions: a bag of rows
    accounts,       \* table accounts: account id -> row, or NULL when absent
    sync_runs,      \* table sync_runs: the rows in id order (id = index)
    source,         \* the remote source: account id -> its records, in source order
    paging,         \* how the source pages: from_id exclusive, or repeated (overlap)
    now,            \* the wall clock, in ticks
    run,            \* the invocation of sync_teller_data in progress
    calls,          \* the direct calls of load_transaction made so far
    fetch,          \* the invocation of get_all_transactions in progress
    recon,          \* the last result of reconstruct_daily_balances
    listing         \* what the source lists for each account: its name and status

vars ==
    <<transactions, accounts, sync_runs, source, paging, now, run, calls, fetch, recon,
      listing>>

\* a nullable value is NULL or Some(v); Val reads the value
NULL == << >>
Some(v) == <<v>>
Val(o) == o[1]

(***************************************************************************)
(* Bounds of the model.                                                    *)
(***************************************************************************)
MaxCalls == 3       \* direct calls of load_transaction
MaxRows == 3        \* rows of the transactions table read by the reconstruction
TicksPerDay == 2    \* resolution of the clock
PageSize == 2       \* page_size, 250 in the source, scaled to the sources modelled
MaxRequests == 6    \* page requests of one call of get_all_transactions
MaxRuns == 3        \* invocations of sync_teller_data when only the run type is followed
MaxSyncRuns == 2    \* invocations of sync_teller_data against a changing source
MaxErrAt == 2       \* the page requests of a fetch that may fail
BalanceProbeCount == 2  \* count of the balance probe, 20 in the source, scaled likewise

\* constants of the program
FullSyncAfterDays == 7

\* ids of the accounts and transactions the source may expose
AccountIds == {"acc_1", "acc_2"}
AccountOrder == <<"acc_1", "acc_2">>
TxnIds == {"txn_9", "txn_10", "txn_11", "txn_20"}
TxnOrder == <<"txn_9", "txn_10", "txn_11", "txn_20">>
Days == 2..5
Amounts == {-5000, 20000}
Balances == {100000, 2500}

\* the values of the variables a specification leaves alone
IdleRun ==
    [phase |-> "idle", force_full |-> FALSE, sync_type |-> "none", sync_run_id |-> 0,
     accounts |-> << >>, idx |-> 0,
     stats |-> [accounts_synced |-> 0, total_transactions |-> 0,
                new_transactions |-> 0, updated_transactions |-> 0],
     fetched |-> << >>, upserts |-> << >>, cursor_before |-> NULL, stored_before |-> {},
     passes |-> << >>, ended |-> "none", raised |-> NULL, in_flight |-> NULL,
     cursors_at_start |-> NULL, rows_at_start |-> NULL]
IdleFetch == [pc |-> "idle", all_transactions |-> << >>, requests |-> << >>, error |-> FALSE]
IdleRecon == [outcome |-> "none", daily_balances |-> << >>]
NoAccounts == [a \in AccountIds |-> NULL]

\* the accounts as the source lists them when nothing else is said
DefaultListing ==
    [a \in AccountIds |->
        [name |-> IF a = "acc_1" THEN "Checking" ELSE "Savings", status |-> "open"]]

\* an account row as load_account inserts it
AccountRow(name, status, balance) ==
    [name |-> name, status |-> status, balance_amount |-> balance,
     last_transaction_date |-> NULL, last_transaction_id |-> NULL,
     last_synced_at |-> NULL]
NoSource == [a \in AccountIds |-> << >>]

(***************************************************************************)
(* Helpers on sequences and bags.                                          *)
(***************************************************************************)
Range(s) == {s[i] : i \in 1..Len(s)}

\* the rows of a table, and how many of them carry an id
Rows(tbl) == BagToSet(tbl)
RowCount(tbl, id) ==
    LET hit == {r \in Rows(tbl) : r.id = id}
    IN BagCardinality([r \in hit |-> tbl[r]])

\* the sum of the amounts of the rows S of a table
RECURSIVE SumAmounts(_, _)
SumAmounts(S, tbl) ==
    IF S = {} THEN 0
    ELSE LET r == CHOOSE x \in S : TRUE
         IN r.amount * tbl[r] + SumAmounts(S \ {r}, tbl)

Min(S) == CHOOSE x \in S : \A y \in S : x <= y
Max(S) == CHOOSE x \in S : \A y \in S : x >= y

(***************************************************************************)
(* The ledger store: scripts/sync.py.                                      *)
(***************************************************************************)
\* SELECT 1 FROM transactions WHERE id = :id LIMIT 1
transaction_exists(tbl, id) == \E r \in Rows(tbl) : r.id = id

\* the row INSERT writes for a payload
NewRow(p) ==
    [id |-> p.id, account_id |-> p.account_id, amount |-> p.amount,
     date |-> p.date, status |-> p.status]

ReplaceRow(r, p) == NewRow(p)

\* ON DUPLICATE KEY UPDATE: amount, status (and description, running_balance and
\* the detail columns, which are treated like amount) take the payload's value
UpdatedRow(r, p) == [r EXCEPT !.amount = p.amount, !.status = p.status]

PlainInsert(tbl, p) == tbl (+) SetToBag({NewRow(p)})

\* INSERT INTO transactions ... ON DUPLICATE KEY UPDATE ... (id is the primary key)
UpsertRow(tbl, p) ==
    IF transaction_exists(tbl, p.id)
    THEN LET keep == {r \in Rows(tbl) : r.id # p.id}
             hit == {r \in Rows(tbl) : r.id = p.id}
         IN [r \in keep |-> tbl[r]] (+) SetToBag({UpdatedRow(r, p) : r \in hit})
    ELSE PlainInsert(tbl, p)

\* the value load_transaction returns
AlwaysNew(tbl, p) == "new"

UpsertAction(tbl, p) == IF transaction_exists(tbl, p.id) THEN "updated" ELSE "new"

NoWrite(tbl, p) == tbl

\* load_transaction: the table after the call
load_transaction(tbl, p) == UpsertRow(tbl, p)

(***************************************************************************)
(* The page fetcher: teller_integration/client.py.                         *)
(***************************************************************************)
\* a record of the source: a transaction as the API returns it; valid says
\* whether Transaction(**transaction_data) passes validation
DateOf(id) == CASE id = "txn_9" -> 5 [] id = "txn_10" -> 5 [] id = "txn_11" -> 6 [] OTHER -> 4
AmountOf(id) == IF id = "txn_11" THEN 20000 ELSE -5000
RunningBalanceOf(id) ==
    CASE id = "txn_9" -> NULL [] id = "txn_10" -> Some(2500) [] OTHER -> Some(100000)
SourceRecord(id, a, status, valid) ==
    [id |-> id, account_id |-> a, amount |-> AmountOf(id), date |-> DateOf(id),
     status |-> status, running_balance |-> RunningBalanceOf(id), valid |-> valid]

\* Transaction(**transaction_data)
Transaction(d) ==
    [id |-> d.id, account_id |-> d.account_id, amount |-> d.amount, date |-> d.date,
     status |-> d.status, running_balance |-> d.running_balance]

IndexOf(src, id) == CHOOSE i \in 1..Len(src) : src[i].id = id

\* the page the source returns for GET /accounts/{id}/transactions?count&from_id:
\* the rows after the row from_id, or from it on when the source repeats it
SourcePage(src, from_id, mode) ==
    LET first == IF from_id = NULL THEN 1
                 ELSE IF mode = "overlap" THEN IndexOf(src, Val(from_id))
                 ELSE IndexOf(src, Val(from_id)) + 1
        last == IF first + PageSize - 1 < Len(src) THEN first + PageSize - 1 ELSE Len(src)
    IN SubSeq(src, first, last)

NoFromId(all) == NULL

\* params["from_id"]: the id of the last transaction accumulated, if any
from_id_param(all) == IF Len(all) = 0 THEN NULL ELSE Some(all[Len(all)].id)

KeepOverlap(all, data) ==
    [i \in 1..Len(SelectSeq(data, LAMBDA d : d.status # "pending" /\ d.valid)) |->
        Transaction(SelectSeq(data, LAMBDA d : d.status # "pending" /\ d.valid)[i])]

KeepPending(all, data) ==
    LET kept == SelectSeq(data, LAMBDA d :
                    /\ d.valid
                    /\ ~\E i \in 1..Len(all) : all[i].id = d.id)
    IN [i \in 1..Len(kept) |-> Transaction(kept[i])]

\* the inner for loop: pending and invalid records and ids already accumulated
\* are skipped
page_transactions(all, data) ==
    LET kept == SelectSeq(data, LAMBDA d :
                    /\ d.status # "pending"
                    /\ d.valid
                    /\ ~\E i \in 1..Len(all) : all[i].id = d.id)
    IN [i \in 1..Len(kept) |-> Transaction(kept[i])]

ContinueWithoutNew(all, data) ==
    IF Len(data) = 0 THEN [all |-> all, more |-> FALSE]
    ELSE [all |-> all \o page_transactions(all, data), more |-> ~(Len(data) < PageSize)]

ContinueAfterShortPage(all, data) ==
    IF Len(data) = 0 THEN [all |-> all, more |-> FALSE]
    ELSE IF Len(page_transactions(all, data)) = 0 THEN [all |-> all, more |-> FALSE]
    ELSE [all |-> all \o page_transactions(all, data), more |-> TRUE]

\* one pass of the while loop on the page data: the list after it, and whether
\* the loop goes on
PageStep(all, data) ==
    IF Len(data) = 0 THEN [all |-> all, more |-> FALSE]
    ELSE IF Len(page_transactions(all, data)) = 0 THEN [all |-> all, more |-> FALSE]
    ELSE [all |-> all \o page_transactions(all, data), more |-> ~(Len(data) < PageSize)]

\* get_all_transactions against the source src; the request number err_at fails
\* with a transport error (0: none does), which ends the loop
RECURSIVE FetchLoop(_, _, _, _, _)
FetchLoop(src, mode, all, n, err_at) ==
    IF n = err_at THEN all
    ELSE LET step == PageStep(all, SourcePage(src, from_id_param(all), mode))
         IN IF step.more THEN FetchLoop(src, mode, step.all, n + 1, err_at)
            ELSE step.all

get_all_transactions(src, mode, err_at) == FetchLoop(src, mode, << >>, 1, err_at)

\* the page requests the while loop makes when none of them fails
RECURSIVE RequestCount(_, _, _, _)
RequestCount(src, mode, all, n) ==
    LET step == PageStep(all, SourcePage(src, from_id_param(all), mode))
    IN IF step.more THEN RequestCount(src, mode, step.all, n + 1) ELSE n

\* whether the except branch of the while loop is taken: the request number
\* err_at is one the loop makes
page_request_failed(src, mode, err_at) ==
    err_at # 0 /\ err_at <= RequestCount(src, mode, << >>, 1)

\* the sources of one account: up to Len(ids) records with the ids in order
SourcesOf(a, ids, statuses, valids) ==
    UNION {{[i \in 1..k |-> SourceRecord(ids[i], a, f[i][1], f[i][2])] :
               f \in [1..k -> statuses \X valids]} : k \in 0..Len(ids)}

\* the store holds no account, or acc_1 with the cursor (2024-01-06, txn_11)
InitFetch ==
    /\ transactions = EmptyBag
    /\ accounts \in {NoAccounts,
                     [NoAccounts EXCEPT !["acc_1"] =
                         [AccountRow("Checking", "open", Some(2500)) EXCEPT
                              !.last_transaction_date = Some(6),
                              !.last_transaction_id = Some("txn_11")]]}
    /\ sync_runs = << >>
    /\ \E src \in SourcesOf("acc_1", TxnOrder, {"posted", "pending"}, BOOLEAN) :
           source = [a \in AccountIds |-> IF a = "acc_1" THEN src ELSE << >>]
    /\ paging \in {"exclusive", "overlap"}
    /\ now = 0
    /\ run = IdleRun
    /\ calls = << >>
    /\ fetch = IdleFetch
    /\ recon = IdleRecon
    /\ listing = DefaultListing

\* get_all_transactions("acc_1") is called
CallGetAll ==
    /\ fetch.pc = "idle"
    /\ fetch' = [pc |-> "loop", all_transactions |-> << >>, requests |-> << >>,
                 error |-> FALSE]
    /\ UNCHANGED listing
    /\ UNCHANGED <<transactions, accounts, sync_runs, source, paging, now, run, calls, recon>>

\* one pass of the while loop in which the page request succeeds
PageRequest ==
    /\ fetch.pc = "loop"
    /\ Len(fetch.requests) < MaxRequests
    /\ LET from_id == from_id_param(fetch.all_transactions)
           step == PageStep(fetch.all_transactions,
                            SourcePage(source["acc_1"], from_id, paging))
       IN fetch' = [pc |-> IF step.more THEN "loop" ELSE "done",
                    all_transactions |-> step.all,
                    requests |-> Append(fetch.requests, from_id),
                    error |-> FALSE]
    /\ UNCHANGED listing
    /\ UNCHANGED <<transactions, accounts, sync_runs, source, paging, now, run, calls, recon>>

\* one pass of the while loop in which the page request raises
PageError ==
    /\ fetch.pc = "loop"
    /\ Len(fetch.requests) < MaxRequests
    /\ fetch' = [fetch EXCEPT !.pc = "done", !.error = TRUE,
                     !.requests = Append(@, from_id_param(fetch.all_transactions))]
    /\ UNCHANGED listing
    /\ UNCHANGED <<transactions, accounts, sync_runs, source, paging, now, run, calls, recon>>

NextFetch == CallGetAll \/ PageRequest \/ PageError

SpecFetch == InitFetch /\ [][NextFetch]_vars

NoDuplicateIds(all) == \A i, j \in 1..Len(all) : all[i].id = all[j].id => i = j

\* C6: against a source that repeats the final row of a page as the first row
\* of the next, get_all_transactions terminates (it has returned before it made
\* more requests than the source has records, plus one) and the list it
\* accumulates holds no id twice.
OverlapTerminates ==
    paging = "overlap" =>
        /\ NoDuplicateIds(fetch.all_transactions)
        /\ Len(fetch.requests) <= Len(source["acc_1"]) + 1
        /\ Len(fetch.requests) = Len(source["acc_1"]) + 1 => fetch.pc = "done"
        /\ fetch.pc = "loop" => Len(fetch.requests) < MaxRequests

\* a call against an overlapping source has returned after at least three pages,
\* every one of them after the first starting with a row already present
OverlapTerminatesWitness ==
    /\ paging = "overlap"
    /\ fetch.pc = "done"
    /\ Len(fetch.requests) >= 3
    /\ Len(fetch.all_transactions) >= 3
    /\ \A i \in 2..Len(fetch.requests) : fetch.requests[i] # NULL

(***************************************************************************)
(* Direct calls of load_transaction on a store.                            *)
(***************************************************************************)
Payloads ==
    [id : {"txn_9", "txn_10"}, account_id : AccountIds, amount : Amounts,
     date : {4, 5}, status : {"posted"}, running_balance : {NULL}]


InitStore ==
    /\ transactions = EmptyBag
    /\ accounts = NoAccounts
    /\ sync_runs = << >>
    /\ source = NoSource
    /\ paging = "exclusive"
    /\ now = 0
    /\ run = IdleRun
    /\ calls = << >>
    /\ fetch = IdleFetch
    /\ recon = IdleRecon
    /\ listing = DefaultListing

\* one call of load_transaction(p); the call and what it returned are logged
LoadTransaction ==
    /\ Len(calls) < MaxCalls
    /\ \E p \in Payloads :
        /\ transactions' = load_transaction(transactions, p)
        /\ calls' = Append(calls, [payload |-> p, action |-> UpsertAction(transactions, p)])
    /\ UNCHANGED listing
    /\ UNCHANGED <<accounts, sync_runs, source, paging, now, run, fetch, recon>>

NextStore == LoadTransaction

SpecStore == InitStore /\ [][NextStore]_vars

\* C1: when load_transaction is called twice in sequence with the same payload,
\* exactly one row with that id is stored after the second call and the second
\* call returns 'updated'; the first call returns 'new' when it is the first
\* application of that id (no earlier call stored it).
IdempotentUpsert ==
    \A i \in 1..(Len(calls) - 1) :
        calls[i].payload = calls[i + 1].payload =>
            /\ calls[i + 1].action = "updated"
            /\ (\A j \in 1..(i - 1) : calls[j].payload.id # calls[i].payload.id)
                   => calls[i].action = "new"
            /\ (i + 1 = Len(calls)) =>
                   /\ RowCount(transactions, calls[i].payload.id) = 1
                   /\ \A r \in Rows(transactions) :
                          r.id = calls[i].payload.id =>
                              r.amount = calls[i].payload.amount

\* the same payload was applied twice in a row to a store that did not hold its id
IdempotentUpsertWitness ==
    /\ Len(calls) = 2
    /\ calls[1].payload = calls[2].payload
    /\ calls[1].action = "new"
    /\ calls[2].action = "updated"

(***************************************************************************)
(* Balance reconstruction: scripts/balance_history.py.                     *)
(***************************************************************************)
AllAccounts(acct) == SelectSeq(AccountOrder, LAMBDA a : acct[a] # NULL)

\* get_accounts_with_current_balance: the open accounts, in listing order
OpenAccounts(acct) ==
    SelectSeq(AccountOrder, LAMBDA a : acct[a] # NULL /\ acct[a].status = "open")

ZeroBalance(acct, a) == 0

\* float(row.balance_amount) if row.balance_amount else 0.0
current_balance(acct, a) ==
    IF acct[a].balance_amount # NULL /\ Val(acct[a].balance_amount) # 0
    THEN Val(acct[a].balance_amount) ELSE 0

PostedRows(tbl) == {r \in Rows(tbl) : r.status = "posted"}

\* get_date_range: MIN(date), MAX(date) over the posted rows, NULL without any
earliest_date(tbl) ==
    IF PostedRows(tbl) = {} THEN NULL ELSE Some(Min({r.date : r \in PostedRows(tbl)}))
latest_date(tbl) ==
    IF PostedRows(tbl) = {} THEN NULL ELSE Some(Max({r.date : r \in PostedRows(tbl)}))

\* get_transactions_by_account_and_date: transactions_by_account[a][d]
transactions_today(tbl, a, d) ==
    {r \in PostedRows(tbl) : r.account_id = a /\ r.date = d}

\* the record appended for account a on current_date, bal being account_balances[a]
\* on entry to the day; round(x, 2) leaves an amount in cents as it is
BalanceAfterReplay(tbl, a, current_date, bal) ==
    [date |-> current_date,
     account_id |-> a,
     end_of_day_balance |-> bal - SumAmounts(transactions_today(tbl, a, current_date), tbl),
     transaction_count |-> BagCardinality([r \in transactions_today(tbl, a, current_date) |-> tbl[r]]),
     daily_change |-> SumAmounts(transactions_today(tbl, a, current_date), tbl)]

DailyRecord(tbl, a, current_date, bal) ==
    [date |-> current_date,
     account_id |-> a,
     end_of_day_balance |-> bal,
     transaction_count |-> BagCardinality([r \in transactions_today(tbl, a, current_date) |-> tbl[r]]),
     daily_change |-> SumAmounts(transactions_today(tbl, a, current_date), tbl)]

ReplayForward(tbl, a, current_date, bal) ==
    bal + SumAmounts(transactions_today(tbl, a, current_date), tbl)

\* account_balances[a] after the day's transactions are replayed backwards
ReplayDay(tbl, a, current_date, bal) ==
    bal - SumAmounts(transactions_today(tbl, a, current_date), tbl)

\* the while loop: from current_date down to earliest, one day at a time
RECURSIVE ReplayFrom(_, _, _, _, _)
ReplayFrom(tbl, open, current_date, earliest, account_balances) ==
    IF current_date < earliest THEN << >>
    ELSE [i \in 1..Len(open) |->
              DailyRecord(tbl, open[i], current_date, account_balances[open[i]])]
         \o ReplayFrom(tbl, open, current_date - 1, earliest,
                [a \in DOMAIN account_balances |->
                     ReplayDay(tbl, a, current_date, account_balances[a])])

\* reconstruct_daily_balances; without a posted row the date range is (None, None)
\* and the comparison current_date >= earliest_date raises TypeError
reconstruct_daily_balances(tbl, acct) ==
    IF latest_date(tbl) = NULL
    THEN [outcome |-> "raised", daily_balances |-> << >>]
    ELSE [outcome |-> "returned",
          daily_balances |->
              ReplayFrom(tbl, OpenAccounts(acct), Val(latest_date(tbl)), Val(earliest_date(tbl)),
                         [a \in Range(OpenAccounts(acct)) |-> current_balance(acct, a)])]

\* a store as sync runs leave it: posted rows only, every balance set
InitRecon ==
    /\ \E k \in 0..MaxRows :
       \E f \in [1..k -> AccountIds \X Amounts \X Days] :
           transactions = SetToBag({[id |-> TxnOrder[i], account_id |-> f[i][1],
                                     amount |-> f[i][2], date |-> f[i][3],
                                     status |-> "posted"] : i \in 1..k})
    /\ \E b \in Balances, second \in {"absent", "open", "closed"} :
           accounts = [a \in AccountIds |->
                          IF a = "acc_1" THEN AccountRow("Checking", "open", Some(b))
                          ELSE IF second = "absent" THEN NULL
                          ELSE AccountRow("Savings", second, Some(2500))]
    /\ sync_runs = << >>
    /\ source = NoSource
    /\ paging = "exclusive"
    /\ now = 0
    /\ run = IdleRun
    /\ calls = << >>
    /\ fetch = IdleFetch
    /\ recon = IdleRecon
    /\ listing = DefaultListing

\* one call of reconstruct_daily_balances on the store
Reconstruct ==
    /\ recon.outcome = "none"
    /\ recon' = reconstruct_daily_balances(transactions, accounts)
    /\ UNCHANGED listing
    /\ UNCHANGED <<transactions, accounts, sync_runs, source, paging, now, run, calls, fetch>>

NextRecon == Reconstruct

SpecRecon == InitRecon /\ [][NextRecon]_vars

\* the records emitted for account a on day d
RecordsOf(a, d) ==
    {i \in 1..Len(recon.daily_balances) :
        recon.daily_balances[i].account_id = a /\ recon.daily_balances[i].date = d}
RecordOf(a, d) == recon.daily_balances[CHOOSE i \in RecordsOf(a, d) : TRUE]

IsOpen(a) == accounts[a] # NULL /\ accounts[a].status = "open"
StoredDates == {r.date : r \in PostedRows(transactions)}

\* C4: in the output of reconstruct_daily_balances, every open account has a
\* record for the latest date, and its end_of_day_balance is the account's
\* stored balance_amount.
BalanceAnchor ==
    recon.outcome = "returned" =>
        \A a \in AccountIds : IsOpen(a) =>
            /\ RecordsOf(a, Max(StoredDates)) # {}
            /\ \A i \in RecordsOf(a, Max(StoredDates)) :
                   Some(recon.daily_balances[i].end_of_day_balance) = accounts[a].balance_amount

\* an open account with a transaction on the latest date has been reconstructed
BalanceAnchorWitness ==
    /\ recon.outcome = "returned"
    /\ \E r \in Rows(transactions) :
          /\ r.date = Max(StoredDates)
          /\ r.account_id = "acc_1"
          /\ RecordsOf("acc_1", r.date) # {}

\* C5: for every open account and consecutive days d-1, d of the series,
\* end_of_day_balance(d) - end_of_day_balance(d-1) = daily_change(d), the sum of
\* the account's posted transactions dated d; a day without transactions has
\* daily_change 0, transaction_count 0 and the balance of the day before.
DeltaLaw ==
    recon.outcome = "returned" =>
        \A a \in AccountIds : IsOpen(a) =>
            \A d \in (Min(StoredDates) + 1)..Max(StoredDates) :
                LET today == {r \in Rows(transactions) :
                                 r.account_id = a /\ r.date = d /\ r.status = "posted"}
                IN /\ RecordsOf(a, d) # {} /\ RecordsOf(a, d - 1) # {}
                   /\ RecordOf(a, d).end_of_day_balance - RecordOf(a, d - 1).end_of_day_balance
                          = RecordOf(a, d).daily_change
                   /\ RecordOf(a, d).daily_change = SumAmounts(today, transactions)
                   /\ today = {} =>
                          /\ RecordOf(a, d).daily_change = 0
                          /\ RecordOf(a, d).transaction_count = 0
                          /\ RecordOf(a, d).end_of_day_balance
                                 = RecordOf(a, d - 1).end_of_day_balance

\* a series with a day that has transactions and a later day that has none
DeltaLawWitness ==
    /\ recon.outcome = "returned"
    /\ \E d \in Days :
          /\ d - 1 \in Days /\ d + 1 \in Days
          /\ RecordsOf("acc_1", d - 1) # {} /\ RecordsOf("acc_1", d + 1) # {}
          /\ RecordOf("acc_1", d).transaction_count > 0
          /\ RecordOf("acc_1", d + 1).transaction_count = 0

\* the store of the reconstruction scenario: one open account with balance 1000.00
\* whose posted transactions are -50.00 on 2024-01-03 and +200.00 on 2024-01-05,
\* and no other transaction
ReconScenario ==
    /\ accounts["acc_1"] # NULL
    /\ accounts["acc_1"].status = "open"
    /\ accounts["acc_1"].balance_amount = Some(100000)
    /\ ~IsOpen("acc_2")
    /\ BagCardinality(transactions) = 2
    /\ {<<r.account_id, r.amount, r.date, r.status>> : r \in Rows(transactions)}
           = {<<"acc_1", -5000, 3, "posted">>, <<"acc_1", 20000, 5, "posted">>}

ScenarioBalances ==
    /\ RecordsOf("acc_1", 5) # {} /\ RecordOf("acc_1", 5).end_of_day_balance = 100000
    /\ RecordsOf("acc_1", 4) # {} /\ RecordOf("acc_1", 4).end_of_day_balance = 80000
    /\ RecordsOf("acc_1", 3) # {} /\ RecordOf("acc_1", 3).end_of_day_balance = 80000

\* C7 as stated: in the scenario the output holds 1000.00 for 2024-01-05, 800.00
\* for 2024-01-04, 800.00 for 2024-01-03 and 850.00 for 2024-01-02.
ReconScenarioAsStated ==
    (ReconScenario /\ recon.outcome = "returned") =>
        /\ ScenarioBalances
        /\ RecordsOf("acc_1", 2) # {}
        /\ RecordOf("acc_1", 2).end_of_day_balance = 85000

\* C7 as amended: in the scenario the output holds exactly three records, 1000.00
\* for 2024-01-05, 800.00 for 2024-01-04 and 800.00 for 2024-01-03; no record
\* is emitted for 2024-01-02, which lies before the earliest transaction date.
ReconScenarioAmended ==
    (ReconScenario /\ recon.outcome = "returned") =>
        /\ ScenarioBalances
        /\ Len(recon.daily_balances) = 3
        /\ RecordsOf("acc_1", 2) = {}

\* the scenario's store has been reconstructed
ReconScenarioWitness == ReconScenario /\ recon.outcome = "returned"

(***************************************************************************)
(* The sync engine: scripts/sync.py.                                       *)
(***************************************************************************)
CompletedRuns(runs) == {i \in 1..Len(runs) : runs[i].status = "completed"}

\* SELECT ... WHERE status = 'completed' ORDER BY completed_at DESC LIMIT 1
get_last_sync_info(runs) ==
    IF CompletedRuns(runs) = {} THEN NULL
    ELSE runs[CHOOSE i \in CompletedRuns(runs) :
                 \A j \in CompletedRuns(runs) :
                     Val(runs[j].completed_at) <= Val(runs[i].completed_at)]

\* should_do_full_sync at time t; timedelta.days is the whole days elapsed
should_do_full_sync(runs, t) ==
    IF get_last_sync_info(runs) = NULL THEN TRUE
    ELSE ((t - Val(get_last_sync_info(runs).completed_at)) \div TicksPerDay)
             > FullSyncAfterDays

IgnoreForce(force_full, runs, t) ==
    IF should_do_full_sync(runs, t) THEN "full" ELSE "incremental"

\* the sync type sync_teller_data decides on
sync_type_for(force_full, runs, t) ==
    IF force_full \/ should_do_full_sync(runs, t) THEN "full" ELSE "incremental"

\* start_sync_run: the row inserted; force_full is kept with the row for the
\* record, it is no column of the table
start_sync_run(runs, sync_type, t, force_full) ==
    Append(runs, [started_at |-> t, completed_at |-> NULL, status |-> "running",
                  sync_type |-> sync_type, accounts_synced |-> 0,
                  transactions_synced |-> 0, new_transactions |-> 0,
                  updated_transactions |-> 0, error_message |-> NULL,
                  force_full |-> force_full, cursor_dates |-> NULL,
                  crashed |-> FALSE])

CompleteWithoutWhere(runs, sync_run_id, stats, t, acct) ==
    [i \in 1..Len(runs) |->
        [runs[i] EXCEPT !.completed_at = Some(t), !.status = "completed",
                        !.cursor_dates = [a \in AccountIds |->
                            IF acct[a] = NULL THEN NULL ELSE acct[a].last_transaction_date]]]

\* complete_sync_run; cursor_dates keeps every account's cursor date at that
\* moment for the record, it is no column of the table
complete_sync_run(runs, sync_run_id, stats, t, acct) ==
    [runs EXCEPT ![sync_run_id] =
        [@ EXCEPT !.completed_at = Some(t), !.status = "completed",
                  !.accounts_synced = stats.accounts_synced,
                  !.transactions_synced = stats.total_transactions,
                  !.new_transactions = stats.new_transactions,
                  !.updated_transactions = stats.updated_transactions,
                  !.cursor_dates = [a \in AccountIds |->
                      IF acct[a] = NULL THEN NULL ELSE acct[a].last_transaction_date]]]

\* the except branch: UPDATE sync_runs SET status = 'failed', error_message = :error
\* with str(e) for the error
fail_sync_run(runs, sync_run_id, e) ==
    [runs EXCEPT ![sync_run_id] =
        [@ EXCEPT !.status = "failed", !.error_message = Some(e)]]

\* get_transactions(account_id, count=20): the first records of the source,
\* pending and invalid ones dropped
get_transactions_count(src, count) ==
    LET data == SubSeq(src, 1, IF Len(src) < count THEN Len(src) ELSE count)
        kept == SelectSeq(data, LAMBDA d : d.status # "pending" /\ d.valid)
    IN [i \in 1..Len(kept) |-> Transaction(kept[i])]

ProbeEverything(src) ==
    LET with == SelectSeq(get_transactions_count(src, Len(src)),
                          LAMBDA t : t.running_balance # NULL)
    IN IF Len(with) = 0 THEN 0 ELSE Val(with[1].running_balance)

\* get_account_balance: the first running balance found, 0.0 without any
get_account_balance(src) ==
    LET with == SelectSeq(get_transactions_count(src, BalanceProbeCount),
                          LAMBDA t : t.running_balance # NULL)
    IN IF Len(with) = 0 THEN 0 ELSE Val(with[1].running_balance)

InsertIgnore(row, listed, balance) ==
    IF row = NULL THEN AccountRow(listed.name, listed.status, Some(balance)) ELSE row

ReplaceAccount(row, listed, balance) == AccountRow(listed.name, listed.status, Some(balance))

\* load_account: INSERT ... ON DUPLICATE KEY UPDATE name, status, balance_amount;
\* listed is the account as get_accounts returned it
load_account(row, listed, balance) ==
    IF row = NULL THEN AccountRow(listed.name, listed.status, Some(balance))
    ELSE [row EXCEPT !.name = listed.name, !.status = listed.status,
                     !.balance_amount = Some(balance)]

KeepEverything(tbl, row, all) == all

KeepFromCursorDate(tbl, row, all) ==
    IF row.last_transaction_date = NULL THEN all
    ELSE SelectSeq(all, LAMBDA t : t.date >= Val(row.last_transaction_date))

NothingWithoutCursor(tbl, row, all) ==
    IF row.last_transaction_date = NULL THEN << >>
    ELSE SelectSeq(all, LAMBDA t :
             \/ t.date > Val(row.last_transaction_date)
             \/ /\ t.date = Val(row.last_transaction_date)
                /\ t.id # Val(row.last_transaction_id)
                /\ ~transaction_exists(tbl, t.id))

\* get_new_transactions_for_account, all being what the fetch returned
get_new_transactions_for_account(tbl, row, all) ==
    IF row.last_transaction_date = NULL THEN all
    ELSE SelectSeq(all, LAMBDA t :
             \/ t.date > Val(row.last_transaction_date)
             \/ /\ t.date = Val(row.last_transaction_date)
                /\ t.id # Val(row.last_transaction_id)
                /\ ~transaction_exists(tbl, t.id))

\* the for loop over the transactions: the table after the first n upserts
RECURSIVE LoadedTable(_, _, _)
LoadedTable(tbl, txns, n) ==
    IF n = 0 THEN tbl
    ELSE load_transaction(LoadedTable(tbl, txns, n - 1), txns[n])

\* the for loop over the transactions: what each load_transaction returned
LoadActions(tbl, txns) ==
    [i \in 1..Len(txns) |->
        [id |-> txns[i].id, action |-> UpsertAction(LoadedTable(tbl, txns, i - 1), txns[i])]]

CountOf(acts, action) == Cardinality({i \in 1..Len(acts) : acts[i].action = action})

\* latest_transaction after the loop: the first transaction with the greatest date
latest_transaction(txns) ==
    IF Len(txns) = 0 THEN NULL
    ELSE txns[CHOOSE i \in 1..Len(txns) :
                 /\ \A j \in 1..Len(txns) : txns[j].date <= txns[i].date
                 /\ \A j \in 1..(i - 1) : txns[j].date < txns[i].date]

\* update_account_sync_state
update_account_sync_state(row, latest, t) ==
    IF latest = NULL THEN [row EXCEPT !.last_synced_at = Some(t)]
    ELSE [row EXCEPT !.last_transaction_date = Some(latest.date),
                     !.last_transaction_id = Some(latest.id),
                     !.last_synced_at = Some(t)]

\* an account's cursor; an account without a row has none
Cursor(row) ==
    IF row = NULL THEN <<NULL, NULL>>
    ELSE <<row.last_transaction_date, row.last_transaction_id>>

\* the rows of account a
RowsOf(tbl, a) == {r \in Rows(tbl) : r.account_id = a}

\* the transactions sync_teller_data upserts for account a after a fetch that
\* returned all
transactions_to_load(sync_type, tbl, row, all) ==
    IF sync_type = "full" THEN all
    ELSE get_new_transactions_for_account(tbl, row, all)

\* the posted, valid records the source exposes that the store does not hold
MissingFromStore(tbl, src) ==
    {d.id : d \in {x \in UNION {Range(src[a]) : a \in AccountIds} :
                      x.status = "posted" /\ x.valid /\ ~transaction_exists(tbl, x.id)}}

\* sync_teller_data up to start_sync_run: the type is decided and the run row
\* inserted; wait is the time gone by since the last step
StartRun(limit, waits) ==
    /\ run.phase = "idle"
    /\ Len(sync_runs) < limit
    /\ \E force_full \in BOOLEAN, wait \in waits :
        /\ now' = now + wait
        /\ sync_runs' = start_sync_run(sync_runs,
                            sync_type_for(force_full, sync_runs, now + wait),
                            now + wait, force_full)
        /\ run' = [IdleRun EXCEPT !.phase = "started", !.force_full = force_full,
                       !.sync_type = sync_type_for(force_full, sync_runs, now + wait),
                       !.sync_run_id = Len(sync_runs) + 1,
                       !.cursors_at_start = [a \in AccountIds |-> Cursor(accounts[a])],
                       !.rows_at_start = transactions]
    /\ UNCHANGED listing
    /\ UNCHANGED <<transactions, accounts, source, paging, calls, fetch, recon>>

\* get_accounts, load_account for each account, commit
LoadAccounts ==
    /\ run.phase = "started"
    /\ accounts' = [a \in AccountIds |->
                       load_account(accounts[a], listing[a], get_account_balance(source[a]))]
    /\ run' = [run EXCEPT !.phase = "accounts", !.accounts = AccountOrder, !.idx = 1,
                   !.stats.accounts_synced = Len(AccountOrder)]
    /\ UNCHANGED listing
    /\ UNCHANGED <<transactions, sync_runs, source, paging, now, calls, fetch, recon>>

RaiseOnPageError(src, mode, err_at) == page_request_failed(src, mode, err_at)

\* whether get_all_transactions raises to sync_teller_data: the except branch of
\* its while loop prints the error and breaks, so it never does
fetch_raises(src, mode, err_at) == FALSE

\* one pass of the loop over the accounts: fetch, upserts, sync state, commit;
\* err_at is the page request that fails, if any.  An error raised by the fetch
\* would reach the except branch of sync_teller_data.
ProcessAccount ==
    /\ run.phase = "accounts"
    /\ run.idx <= Len(run.accounts)
    /\ \E err_at \in 0..MaxErrAt :
        LET a == run.accounts[run.idx]
            all == get_all_transactions(source[a], paging, err_at)
            txns == transactions_to_load(run.sync_type, transactions, accounts[a], all)
            acts == LoadActions(transactions, txns)
            row == update_account_sync_state(accounts[a], latest_transaction(txns), now)
        IN IF fetch_raises(source[a], paging, err_at)
           THEN
           /\ sync_runs' = fail_sync_run(sync_runs, run.sync_run_id, "TransportError")
           /\ run' = [IdleRun EXCEPT !.ended = "failed",
                          !.raised = Some("TransportError"),
                          !.sync_run_id = run.sync_run_id,
                          !.in_flight = Some(a),
                          !.passes = run.passes,
                          !.cursors_at_start = run.cursors_at_start,
                          !.rows_at_start = run.rows_at_start]
           /\ UNCHANGED <<transactions, accounts>>
           ELSE
           /\ transactions' = LoadedTable(transactions, txns, Len(txns))
           /\ accounts' = [accounts EXCEPT ![a] = row]
           /\ UNCHANGED sync_runs
           /\ run' = [run EXCEPT
                   !.idx = @ + 1,
                   !.stats.new_transactions = @ + CountOf(acts, "new"),
                   !.stats.updated_transactions = @ + CountOf(acts, "updated"),
                   !.stats.total_transactions = @ + Len(txns),
                   !.fetched = all,
                   !.upserts = acts,
                   !.cursor_before = <<accounts[a].last_transaction_date,
                                       accounts[a].last_transaction_id>>,
                   !.stored_before = {r.id : r \in Rows(transactions)},
                   !.passes = Append(@,
                       [account |-> a,
                        page_failed |-> page_request_failed(source[a], paging, err_at),
                        cursor |-> Cursor(row),
                        loaded |-> {txns[i].id : i \in 1..Len(txns)}])]
    /\ UNCHANGED listing
    /\ UNCHANGED <<source, paging, now, calls, fetch, recon>>

\* complete_sync_run and return
CompleteRun ==
    /\ run.phase = "accounts"
    /\ run.idx > Len(run.accounts)
    /\ sync_runs' = complete_sync_run(sync_runs, run.sync_run_id, run.stats, now, accounts)
    /\ run' = [IdleRun EXCEPT !.ended = "completed",
                   !.sync_type = run.sync_type,
                   !.sync_run_id = run.sync_run_id,
                   !.passes = run.passes,
                   !.cursors_at_start = run.cursors_at_start,
                   !.rows_at_start = run.rows_at_start]
    /\ UNCHANGED listing
    /\ UNCHANGED <<transactions, accounts, source, paging, now, calls, fetch, recon>>

\* TellerConfig.from_env or get_accounts raises: the except branch marks the
\* run failed and re-raises
FailRun ==
    /\ run.phase = "started"
    /\ sync_runs' = fail_sync_run(sync_runs, run.sync_run_id, "TellerError")
    /\ run' = [IdleRun EXCEPT !.ended = "failed", !.raised = Some("TellerError"),
                   !.sync_run_id = run.sync_run_id,
                   !.cursors_at_start = run.cursors_at_start,
                   !.rows_at_start = run.rows_at_start]
    /\ UNCHANGED listing
    /\ UNCHANGED <<transactions, accounts, source, paging, now, calls, fetch, recon>>

\* what the commit of the except branch makes durable: the upserts the session
\* executed for the account in flight before the statement that raised
handler_commit(tbl, txns, k) == LoadedTable(tbl, txns, k)

\* a statement of the pass over an account raises: load_transaction number k + 1,
\* or update_account_sync_state when all Len(txns) upserts were executed; the
\* except branch marks the run failed, commits the session and re-raises.  The
\* fetch of the pass is one without a transport failure.
StoreError ==
    /\ run.phase = "accounts"
    /\ run.idx <= Len(run.accounts)
    /\ LET a == run.accounts[run.idx]
           all == get_all_transactions(source[a], paging, 0)
           txns == transactions_to_load(run.sync_type, transactions, accounts[a], all)
       IN \E k \in 0..Len(txns) :
           /\ transactions' = handler_commit(transactions, txns, k)
           /\ sync_runs' = fail_sync_run(sync_runs, run.sync_run_id, "IntegrityError")
           /\ run' = [IdleRun EXCEPT !.ended = "failed",
                          !.raised = Some("IntegrityError"),
                          !.sync_run_id = run.sync_run_id,
                          !.in_flight = Some(a),
                          !.passes = run.passes,
                          !.cursors_at_start = run.cursors_at_start,
                          !.rows_at_start = run.rows_at_start]
    /\ UNCHANGED listing
    /\ UNCHANGED <<accounts, source, paging, now, calls, fetch, recon>>

\* a statement of the pass over an account raises because the store is out of
\* reach: the UPDATE of the except branch raises as well, so the run row is not
\* written, the error of the handler goes to the caller, and what the session
\* executed since its last commit is lost
StoreLost ==
    /\ run.phase = "accounts"
    /\ run.idx <= Len(run.accounts)
    /\ run' = [IdleRun EXCEPT !.ended = "raised",
                   !.raised = Some("OperationalError"),
                   !.sync_run_id = run.sync_run_id,
                   !.in_flight = Some(run.accounts[run.idx]),
                   !.passes = run.passes,
                   !.cursors_at_start = run.cursors_at_start,
                   !.rows_at_start = run.rows_at_start]
    /\ UNCHANGED listing
    /\ UNCHANGED <<transactions, accounts, sync_runs, source, paging, now, calls, fetch,
                   recon>>

KeepUncommitted(committed, uncommitted) == uncommitted

\* the store after the process stopped: what the session executed since its
\* last commit is rolled back
after_crash(committed, uncommitted) == committed

\* the process stops: before the accounts are committed, or in the pass over an
\* account after k of its upserts, or before complete_sync_run; the run row
\* stays as it is (crashed marks it for the record)
Crash ==
    /\ run.phase \in {"started", "accounts"}
    /\ LET in_pass == run.phase = "accounts" /\ run.idx <= Len(run.accounts)
           a == run.accounts[run.idx]
           txns == IF in_pass
                   THEN transactions_to_load(run.sync_type, transactions, accounts[a],
                            get_all_transactions(source[a], paging, 0))
                   ELSE << >>
       IN \E k \in 0..Len(txns) :
           /\ transactions' = after_crash(transactions, LoadedTable(transactions, txns, k))
           /\ run' = [IdleRun EXCEPT !.ended = "crashed",
                          !.sync_run_id = run.sync_run_id,
                          !.in_flight = IF in_pass THEN Some(a) ELSE NULL,
                          !.passes = run.passes,
                          !.cursors_at_start = run.cursors_at_start,
                          !.rows_at_start = run.rows_at_start]
    /\ sync_runs' = [sync_runs EXCEPT ![run.sync_run_id].crashed = TRUE]
    /\ UNCHANGED listing
    /\ UNCHANGED <<accounts, source, paging, now, calls, fetch, recon>>

\* a source of one account: each id absent, posted or pending, in the order ids
SubSources(a, ids, options) ==
    {LET tagged == [i \in 1..Len(ids) |->
                       [rec |-> SourceRecord(ids[i], a,
                                   IF f[i] = "pending" THEN "pending" ELSE "posted",
                                   f[i] # "invalid"),
                        present |-> f[i] # "absent"]]
         kept == SelectSeq(tagged, LAMBDA x : x.present)
     IN [i \in 1..Len(kept) |-> kept[i].rec] : f \in [1..Len(ids) -> options]}

SyncSources ==
    {[a \in AccountIds |-> IF a = "acc_1" THEN s1 ELSE s2] :
        s1 \in SubSources("acc_1", <<"txn_9", "txn_10", "txn_11">>,
                          {"absent", "posted", "pending"}),
        s2 \in SubSources("acc_2", <<"txn_20">>, {"absent", "posted"})}

\* the source changes between two runs; what is kept of the last run for the
\* record is dropped
SourceChange ==
    /\ run.phase = "idle"
    /\ Len(sync_runs) < MaxSyncRuns
    /\ \E s \in SyncSources : s # source /\ source' = s
    /\ run' = IdleRun
    /\ UNCHANGED listing
    /\ UNCHANGED <<transactions, accounts, sync_runs, paging, now, calls, fetch, recon>>

InitSync ==
    /\ transactions = EmptyBag
    /\ accounts = NoAccounts
    /\ sync_runs = << >>
    /\ source \in SyncSources
    /\ paging = "exclusive"
    /\ now = 0
    /\ run = IdleRun
    /\ calls = << >>
    /\ fetch = IdleFetch
    /\ recon = IdleRecon
    /\ listing = DefaultListing

NextSync ==
    \/ StartRun(MaxSyncRuns, {TicksPerDay, 8 * TicksPerDay})
    \/ LoadAccounts
    \/ ProcessAccount
    \/ CompleteRun
    \/ FailRun
    \/ Crash
    \/ SourceChange

SpecSync == InitSync /\ [][NextSync]_vars

\* runs in which a store write may fail, against a source that stays as it is
NextFault ==
    \/ StartRun(MaxSyncRuns, {TicksPerDay, (FullSyncAfterDays + 1) * TicksPerDay})
    \/ LoadAccounts
    \/ ProcessAccount
    \/ CompleteRun
    \/ FailRun
    \/ StoreError
    \/ StoreLost
    \/ Crash

SpecFault == InitSync /\ [][NextFault]_vars

\* the times between two runs: a tick, seven days, seven days and a tick, eight days
RunTypeWaits ==
    {1, FullSyncAfterDays * TicksPerDay, FullSyncAfterDays * TicksPerDay + 1,
     (FullSyncAfterDays + 1) * TicksPerDay}

\* runs against a source without transactions
InitRunType ==
    /\ transactions = EmptyBag
    /\ accounts = NoAccounts
    /\ sync_runs = << >>
    /\ source = NoSource
    /\ paging = "exclusive"
    /\ now = 0
    /\ run = IdleRun
    /\ calls = << >>
    /\ fetch = IdleFetch
    /\ recon = IdleRecon
    /\ listing = DefaultListing

NextRunType ==
    \/ StartRun(MaxRuns, RunTypeWaits)
    \/ LoadAccounts
    \/ ProcessAccount
    \/ CompleteRun
    \/ FailRun
    \/ StoreError
    \/ Crash

SpecRunType == InitRunType /\ [][NextRunType]_vars

\* the completed_at of the last run completed before run i started
CompletedBefore(i) == {j \in 1..(i - 1) : sync_runs[j].status = "completed"}
LastCompletedBefore(i) == Max({Val(sync_runs[j].completed_at) : j \in CompletedBefore(i)})

\* C9: a run started with force_full = false is 'full' whenever the most recent
\* completed run was completed more than 7 days before the run's start, and
\* 'incremental' when it was completed 7 days or less before it.
StalenessThreshold ==
    \A i \in 1..Len(sync_runs) :
        (~sync_runs[i].force_full /\ CompletedBefore(i) # {}) =>
            IF sync_runs[i].started_at - LastCompletedBefore(i)
                   > FullSyncAfterDays * TicksPerDay
            THEN sync_runs[i].sync_type = "full"
            ELSE sync_runs[i].sync_type = "incremental"

\* C10: a run started with force_full = true is 'full'; a run started when no
\* run is 'completed' is 'full', also when every earlier run is 'failed' or
\* 'running'; the type the run works with is the one written with its row, and
\* the type of a row never changes.
ForcedAndFirstRuns ==
    /\ [](\A i \in 1..Len(sync_runs) :
             /\ sync_runs[i].force_full => sync_runs[i].sync_type = "full"
             /\ CompletedBefore(i) = {} => sync_runs[i].sync_type = "full")
    /\ [](run.phase # "idle" => run.sync_type = sync_runs[run.sync_run_id].sync_type)
    /\ [][\A i \in 1..Len(sync_runs) :
              sync_runs'[i].sync_type = sync_runs[i].sync_type]_vars

\* a run that was not forced is 'full' after a failed run and a run left running
\* a day before, and a forced run is 'full' a tick after a completed one
ForcedAndFirstRunsWitness ==
    /\ Len(sync_runs) = 3
    /\ {sync_runs[1].status, sync_runs[2].status} = {"failed", "running"}
    /\ ~sync_runs[3].force_full
    /\ sync_runs[3].sync_type = "full"
    /\ sync_runs[3].status = "completed"

\* C2: no stored transaction has status 'pending', and no transaction the
\* source reports as pending when an account is fetched is upserted by that
\* pass, in a full and in an incremental run alike.
PendingExclusion ==
    /\ \A r \in Rows(transactions) : r.status = "posted"
    /\ (run.phase = "accounts" /\ run.idx > 1) =>
           \A k \in 1..Len(run.upserts) :
               \A d \in Range(source[run.accounts[run.idx - 1]]) :
                   d.id = run.upserts[k].id => d.status # "pending"

\* an incremental pass over an account whose source reports a pending and a
\* posted transaction has upserted something
PendingExclusionWitness ==
    /\ run.phase = "accounts"
    /\ run.idx = 2
    /\ run.sync_type = "incremental"
    /\ \E d \in Range(source["acc_1"]) : d.status = "pending"
    /\ Len(run.upserts) > 0
    /\ Len(run.fetched) < Len(source["acc_1"])

\* C3: for two consecutive runs that both end 'completed', every account's
\* last_transaction_date after the second is greater than or equal to its value
\* after the first.
CursorMonotonicity ==
    \A i \in 1..(Len(sync_runs) - 1) :
        (sync_runs[i].status = "completed" /\ sync_runs[i + 1].status = "completed") =>
            \A a \in AccountIds :
                sync_runs[i].cursor_dates[a] # NULL =>
                    /\ sync_runs[i + 1].cursor_dates[a] # NULL
                    /\ Val(sync_runs[i + 1].cursor_dates[a])
                           >= Val(sync_runs[i].cursor_dates[a])

\* what the fetch of the pass just made returned, as ids and dates
FetchedIdsAndDates == [i \in 1..Len(run.fetched) |-> <<run.fetched[i].id, run.fetched[i].date>>]

\* the incremental scenario: the pass over acc_1 of an incremental run found the
\* cursor (2024-01-05, txn_9), fetched txn_9 and txn_10 of 2024-01-05 and txn_11
\* of 2024-01-06, and neither txn_10 nor txn_11 was stored
IncrementalScenarioCase ==
    /\ run.phase = "accounts"
    /\ run.idx = 2
    /\ run.sync_type = "incremental"
    /\ run.cursor_before = <<Some(5), Some("txn_9")>>
    /\ FetchedIdsAndDates = <<(<<"txn_9", 5>>), (<<"txn_10", 5>>), (<<"txn_11", 6>>)>>
    /\ run.stored_before \cap {"txn_10", "txn_11"} = {}

\* C8: in the incremental scenario exactly txn_10 and txn_11 are upserted, both
\* reported 'new' and both stored afterwards; txn_9 is not upserted.
IncrementalScenario ==
    IncrementalScenarioCase =>
        /\ run.upserts = <<[id |-> "txn_10", action |-> "new"],
                           [id |-> "txn_11", action |-> "new"]>>
        /\ RowCount(transactions, "txn_10") = 1
        /\ RowCount(transactions, "txn_11") = 1
        /\ run.stats.new_transactions = 2
        /\ run.stats.updated_transactions = 0

\* the scenario has happened
IncrementalScenarioWitness == IncrementalScenarioCase

\* C11: every sync run row is created with status 'running'; a row's status
\* changes only from 'running', and only to 'completed' or 'failed'; a row that
\* is 'completed' or 'failed' keeps its status in every later step, of the same
\* invocation and of every later one; no row is removed.
SingleTerminalStatus ==
    [][/\ Len(sync_runs') >= Len(sync_runs)
       /\ \A i \in (Len(sync_runs) + 1)..Len(sync_runs') :
              sync_runs'[i].status = "running"
       /\ \A i \in 1..Len(sync_runs) :
              sync_runs'[i].status # sync_runs[i].status =>
                  /\ sync_runs[i].status = "running"
                  /\ sync_runs'[i].status \in {"completed", "failed"}]_vars

\* a run failed on a store write, and the next invocation ran to completion
SingleTerminalStatusWitness ==
    /\ Len(sync_runs) = 2
    /\ sync_runs[1].status = "failed"
    /\ sync_runs[1].error_message = Some("IntegrityError")
    /\ sync_runs[2].status = "completed"
    /\ run.ended = "completed"

\* C12: a page request that fails with a transport error during the pass over
\* one account does not end the run: the pass is committed and the run goes on
\* with the next account; no run ends 'failed' on a transport error of a page
\* request; a run that ends 'completed' has made a pass over every account
\* get_accounts returned, in order, whether or not page requests failed.
FailureIsolation ==
    /\ \A i \in 1..Len(run.passes) :
           run.passes[i].account = AccountOrder[i]
    /\ (run.phase = "accounts" /\ run.idx > 1) =>
           /\ Len(run.passes) = run.idx - 1
           /\ sync_runs[run.sync_run_id].status = "running"
    /\ run.ended = "failed" => run.raised # Some("TransportError")
    /\ run.ended = "completed" =>
           /\ Len(run.passes) = Len(AccountOrder)
           /\ sync_runs[run.sync_run_id].status = "completed"
           /\ sync_runs[run.sync_run_id].accounts_synced = Len(AccountOrder)

\* a run ended 'completed' although a page request of the first account failed,
\* and the pass over the second account loaded what its source holds
FailureIsolationWitness ==
    /\ run.ended = "completed"
    /\ run.passes[1].page_failed
    /\ ~run.passes[2].page_failed
    /\ run.passes[2].loaded = {"txn_20"}
    /\ Len(source["acc_1"]) = 3

\* C13: within a sync run, the cursor of an account whose fetch was cut short by
\* a failed page request is, after the pass over that account, the cursor the
\* account had before the run.
CursorOnlyAfterSuccess ==
    \A i \in 1..Len(run.passes) :
        run.passes[i].page_failed =>
            run.passes[i].cursor = run.cursors_at_start[run.passes[i].account]

\* the invocation that just ended was stopped by an error of a store write in
\* the pass over an account
StoreWriteFailed == run.ended \in {"failed", "raised"} /\ run.in_flight # NULL

\* C14: whenever a store write fails in the pass over an account, the
\* run is 'failed' with the error's text as error_message, the error goes to the
\* caller, and the cursor of the account in flight is the one before the run.
StoreWriteErrorAsStated ==
    StoreWriteFailed =>
        /\ sync_runs[run.sync_run_id].status = "failed"
        /\ run.raised # NULL
        /\ sync_runs[run.sync_run_id].error_message = run.raised
        /\ Cursor(accounts[Val(run.in_flight)]) = run.cursors_at_start[Val(run.in_flight)]

\* C15: whenever a run has ended 'failed', the stored transactions, with their
\* field values, and every account's cursor are the same as when the run
\* started; no transaction of the account in flight was committed by the
\* failure handler.
FailedRunLeavesState ==
    run.ended = "failed" =>
        /\ transactions = run.rows_at_start
        /\ \A a \in AccountIds : Cursor(accounts[a]) = run.cursors_at_start[a]

\* C16: when the process stopped during a sync run, every account whose pass was
\* committed before has the cursor that pass wrote and the transactions it
\* loaded, the account in flight has the cursor and the rows it had when the run
\* started, and the row of a run the process stopped in is 'running' in every
\* later state.
CrashDurability ==
    /\ \A i \in 1..Len(sync_runs) :
           sync_runs[i].crashed => sync_runs[i].status = "running"
    /\ run.ended = "crashed" =>
           /\ \A i \in 1..Len(run.passes) :
                  /\ Cursor(accounts[run.passes[i].account]) = run.passes[i].cursor
                  /\ \A id \in run.passes[i].loaded : RowCount(transactions, id) = 1
           /\ run.in_flight # NULL =>
                  /\ Cursor(accounts[Val(run.in_flight)])
                         = run.cursors_at_start[Val(run.in_flight)]
                  /\ RowsOf(transactions, Val(run.in_flight))
                         = RowsOf(run.rows_at_start, Val(run.in_flight))

\* the process stopped in the pass over acc_2, which had txn_20 to load, after
\* the pass over acc_1 was committed; the run before it was stopped as well
CrashDurabilityWitness ==
    /\ run.ended = "crashed"
    /\ run.sync_run_id = 2
    /\ sync_runs[1].crashed
    /\ Len(run.passes) = 1
    /\ run.passes[1].loaded # {}
    /\ run.passes[1].cursor # run.cursors_at_start["acc_1"]
    /\ run.in_flight = Some("acc_2")
    /\ \E d \in Range(source["acc_2"]) : d.status = "posted"
    /\ ~transaction_exists(transactions, "txn_20")

\* C17: after a run of type 'full' has ended 'completed', every posted,
\* schema-valid transaction the source exposes for an account get_accounts
\* returned is in the store.
FullSyncComplete ==
    (run.ended = "completed" /\ run.sync_type = "full") =>
        MissingFromStore(transactions, source) = {}

\* C18: the output of reconstruct_daily_balances holds exactly one record for
\* every open account and every day from the earliest to the latest date of a
\* posted transaction in the store, both included and no day left out; it holds
\* no record for a closed account and none for a day outside that range; the
\* records are ordered by date descending.
ReconCoverage ==
    recon.outcome = "returned" =>
        /\ \A a \in AccountIds : \A d \in Min(StoredDates)..Max(StoredDates) :
               IsOpen(a) => Cardinality(RecordsOf(a, d)) = 1
        /\ \A i \in 1..Len(recon.daily_balances) :
               /\ IsOpen(recon.daily_balances[i].account_id)
               /\ recon.daily_balances[i].date \in Min(StoredDates)..Max(StoredDates)
        /\ \A i, j \in 1..Len(recon.daily_balances) :
               i < j => recon.daily_balances[i].date >= recon.daily_balances[j].date

\* a reconstruction over four days, one of them without a transaction, with a
\* closed account that has a posted transaction
ReconCoverageWitness ==
    /\ recon.outcome = "returned"
    /\ accounts["acc_2"] # NULL
    /\ accounts["acc_2"].status = "closed"
    /\ \E r \in PostedRows(transactions) : r.account_id = "acc_2"
    /\ Min(StoredDates) = 2
    /\ Max(StoredDates) = 5
    /\ 4 \notin StoredDates
    /\ Len(recon.daily_balances) = 4

\* C19: reconstruct_daily_balances emits no record for an open account whose
\* stored balance is NULL or which has no posted transaction; when the store
\* holds no posted transaction at all, it returns an empty sequence.
InsufficientData ==
    recon.outcome # "none" =>
        /\ PostedRows(transactions) = {} =>
               recon.outcome = "returned" /\ recon.daily_balances = << >>
        /\ \A a \in AccountIds :
               (/\ IsOpen(a)
                /\ \/ accounts[a].balance_amount = NULL
                   \/ ~\E r \in PostedRows(transactions) : r.account_id = a)
               => ~\E i \in 1..Len(recon.daily_balances) :
                      recon.daily_balances[i].account_id = a

(***************************************************************************)
(* Two sync processes in load_transaction at the same time.                *)
(***************************************************************************)
\* each of the two processes is about to call load_transaction with a payload
InitConcurrent ==
    /\ transactions = EmptyBag
    /\ accounts = NoAccounts
    /\ sync_runs = << >>
    /\ source = NoSource
    /\ paging = "exclusive"
    /\ now = 0
    /\ run = IdleRun
    /\ \E p1, p2 \in Payloads :
           calls = <<[payload |-> p1, pc |-> "called", exists |-> FALSE, action |-> NULL],
                     [payload |-> p2, pc |-> "called", exists |-> FALSE, action |-> NULL]>>
    /\ fetch = IdleFetch
    /\ recon = IdleRecon
    /\ listing = DefaultListing

\* exists = self.transaction_exists(transaction.id)
CheckExists ==
    /\ \E p \in 1..Len(calls) :
        /\ calls[p].pc = "called"
        /\ calls' = [calls EXCEPT ![p].pc = "checked",
                         ![p].exists = transaction_exists(transactions, calls[p].payload.id)]
    /\ UNCHANGED listing
    /\ UNCHANGED <<transactions, accounts, sync_runs, source, paging, now, run, fetch, recon>>

\* the INSERT ... ON DUPLICATE KEY UPDATE statement, and the return
ExecuteUpsert ==
    /\ \E p \in 1..Len(calls) :
        /\ calls[p].pc = "checked"
        /\ transactions' = UpsertRow(transactions, calls[p].payload)
        /\ calls' = [calls EXCEPT ![p].pc = "returned",
                         ![p].action = Some(IF calls[p].exists THEN "updated" ELSE "new")]
    /\ UNCHANGED listing
    /\ UNCHANGED <<accounts, sync_runs, source, paging, now, run, fetch, recon>>

NextConcurrent == CheckExists \/ ExecuteUpsert

SpecConcurrent == InitConcurrent /\ [][NextConcurrent]_vars

\* C20: when two processes have called load_transaction for the same id, not
\* stored before, and both calls have returned, the store holds exactly one row
\* for that id and exactly one of the two calls returned 'new'.
ConcurrentUpsert ==
    (/\ calls[1].pc = "returned"
     /\ calls[2].pc = "returned"
     /\ calls[1].payload.id = calls[2].payload.id)
    => /\ RowCount(transactions, calls[1].payload.id) = 1
       /\ Cardinality({p \in 1..2 : calls[p].action = Some("new")}) = 1

\* the ids of the upserts of the pass just made, and of what its fetch returned
UpsertedIds == [i \in 1..Len(run.upserts) |-> run.upserts[i].id]
FetchedIds == [i \in 1..Len(run.fetched) |-> run.fetched[i].id]

\* the pass just made was one of an incremental run
IncrementalPass == run.phase = "accounts" /\ run.idx > 1 /\ run.sync_type = "incremental"

\* C21: in an incremental pass over an account with the stored cursor (D, I), a
\* fetched transaction is upserted if and only if its date is after D, or its
\* date is D, its id is not I and its id was not in the store; no fetched
\* transaction dated before D is upserted.
IncrementalFilter ==
    (IncrementalPass /\ run.cursor_before[1] # NULL) =>
        /\ \A i \in 1..Len(run.fetched) :
               (run.fetched[i].id \in Range(UpsertedIds)) <=>
                   \/ run.fetched[i].date > Val(run.cursor_before[1])
                   \/ /\ run.fetched[i].date = Val(run.cursor_before[1])
                      /\ run.fetched[i].id # Val(run.cursor_before[2])
                      /\ run.fetched[i].id \notin run.stored_before
        /\ Range(UpsertedIds) \subseteq Range(FetchedIds)
        /\ \A i \in 1..Len(run.fetched) :
               run.fetched[i].date < Val(run.cursor_before[1]) =>
                   run.fetched[i].id \notin Range(UpsertedIds)

\* the cursor was (2024-01-05, txn_9) and txn_10 of the same day was stored: of
\* txn_9, txn_10 and txn_11 fetched, only txn_11 was upserted
IncrementalFilterWitness ==
    /\ IncrementalPass
    /\ run.cursor_before = <<Some(5), Some("txn_9")>>
    /\ "txn_10" \in run.stored_before
    /\ FetchedIds = <<"txn_9", "txn_10", "txn_11">>
    /\ UpsertedIds = <<"txn_11">>

\* the cursor was (2024-01-06, txn_11) and the fetch returned older
\* transactions only, one of them not stored: nothing was upserted
IncrementalFilterOlder ==
    /\ IncrementalPass
    /\ run.cursor_before = <<Some(6), Some("txn_11")>>
    /\ \E i \in 1..Len(run.fetched) :
           run.fetched[i].date = 5 /\ run.fetched[i].id \notin run.stored_before
    /\ UpsertedIds = << >>

\* C22: in an incremental pass over an account without a stored
\* last_transaction_date, every transaction the fetch returned is upserted, in
\* the order returned, as in a full run.
IncrementalWithoutCursor ==
    (IncrementalPass /\ run.cursor_before[1] = NULL) => UpsertedIds = FetchedIds

\* an incremental pass over acc_1, which had no cursor, upserted the two
\* transactions fetched, one of them dated as the other
IncrementalWithoutCursorWitness ==
    /\ IncrementalPass
    /\ run.idx = 2
    /\ run.cursor_before = <<NULL, NULL>>
    /\ Len(run.fetched) >= 2
    /\ UpsertedIds = FetchedIds

\* C23: after the pass over an account whose fetch returned transactions, the
\* account's cursor is the (date, id) of the latest-dated transaction of that
\* fetch, the first of them in source order when several share the date, also
\* when the run kept none of them; last_synced_at is the time of the run.
CursorAdvance ==
    (run.phase = "accounts" /\ run.idx > 1 /\ Len(run.fetched) > 0) =>
        LET row == accounts[run.accounts[run.idx - 1]]
            latest == latest_transaction(run.fetched)
        IN /\ Cursor(row) = <<Some(latest.date), Some(latest.id)>>
           /\ row.last_synced_at = Some(now)

\* C24: a call of get_all_transactions in which no page request failed, on a
\* source without pending records, returns no record that fails validation and
\* returns every posted, valid transaction of the source, whatever malformed
\* records lie on the same page or on earlier pages.
MalformedSkipped ==
    (/\ fetch.pc = "done"
     /\ ~fetch.error
     /\ \A d \in Range(source["acc_1"]) : d.status = "posted")
    => /\ \A d \in Range(source["acc_1"]) :
              ~d.valid => ~\E i \in 1..Len(fetch.all_transactions) :
                              fetch.all_transactions[i].id = d.id
       /\ \A d \in Range(source["acc_1"]) :
              d.valid => \E i \in 1..Len(fetch.all_transactions) :
                             fetch.all_transactions[i].id = d.id

\* the ids accumulated by the call of get_all_transactions
AccumulatedIds(f) == {f.all_transactions[i].id : i \in 1..Len(f.all_transactions)}

\* C25: after a page request that did not fail, get_all_transactions makes a
\* further request if and only if the page held exactly page_size raw records
\* and added a transaction id not yet accumulated; an empty page, a page with
\* fewer records, or one that added no id ends the fetch, and a fetch that has
\* ended makes no request.
EndOfStream ==
    [][/\ (fetch.pc = "loop" /\ fetch' # fetch /\ ~fetch'.error) =>
              LET data == SourcePage(source["acc_1"],
                                     from_id_param(fetch.all_transactions), paging)
              IN /\ Len(fetch'.requests) = Len(fetch.requests) + 1
                 /\ fetch'.pc \in {"loop", "done"}
                 /\ (fetch'.pc = "loop") <=>
                        /\ Len(data) = PageSize
                        /\ AccumulatedIds(fetch') # AccumulatedIds(fetch)
       /\ fetch.pc = "done" => fetch'.requests = fetch.requests]_vars

\* a fetch of three transactions ended on its second page, a short one that
\* added an id
EndOfStreamWitness ==
    /\ fetch.pc = "done"
    /\ ~fetch.error
    /\ paging = "exclusive"
    /\ Len(source["acc_1"]) = 3
    /\ Len(fetch.requests) = 2
    /\ Len(fetch.all_transactions) = 3

\* a fetch ended on a full page that added no id
EndOfStreamNothingNew ==
    /\ fetch.pc = "done"
    /\ ~fetch.error
    /\ Len(source["acc_1"]) = 4
    /\ Len(fetch.requests) = 1
    /\ fetch.all_transactions = << >>

\* C26: in every call of get_all_transactions the first page request carries no
\* from_id, and every later request carries the id of the last transaction
\* accumulated in that call up to then, whatever cursor the store holds for the
\* account.
RequestScopedCursor ==
    [][Len(fetch'.requests) = Len(fetch.requests) + 1 =>
          LET from_id == fetch'.requests[Len(fetch'.requests)]
          IN IF Len(fetch.requests) = 0 THEN from_id = NULL
             ELSE /\ Len(fetch.all_transactions) > 0
                  /\ from_id = Some(fetch.all_transactions[Len(fetch.all_transactions)].id)]_vars

\* the store holds the cursor txn_11 for acc_1; the call made three requests,
\* the first without from_id, the second from txn_9, the last transaction kept
\* of the first page
RequestScopedCursorWitness ==
    /\ accounts["acc_1"] # NULL
    /\ accounts["acc_1"].last_transaction_id = Some("txn_11")
    /\ fetch.pc = "done"
    /\ Len(fetch.requests) = 3
    /\ fetch.requests[1] = NULL
    /\ fetch.requests[2] = Some("txn_9")
    /\ fetch.requests[3] = Some("txn_11")
    /\ Len(fetch.all_transactions) = 3

\* the posted transactions of account a dated after day d
PostedAfter(a, d) == {r \in PostedRows(transactions) : r.account_id = a /\ r.date > d}

\* the dates of the posted transactions of account a
OwnDates(a) == {r.date : r \in {x \in PostedRows(transactions) : x.account_id = a}}

\* C27: for every open account a and every day d of the emitted range,
\* end_of_day_balance(a, d) is the account's stored balance minus the sum of
\* the amounts of the posted transactions of a dated after d.
ClosedForm ==
    recon.outcome = "returned" =>
        \A a \in AccountIds : \A d \in Min(StoredDates)..Max(StoredDates) :
            IsOpen(a) =>
                RecordOf(a, d).end_of_day_balance =
                    Val(accounts[a].balance_amount)
                        - SumAmounts(PostedAfter(a, d), transactions)

\* acc_1 has transactions on three days of a range of four
ClosedFormWitness ==
    /\ recon.outcome = "returned"
    /\ Cardinality(OwnDates("acc_1")) = 3
    /\ Max(StoredDates) - Min(StoredDates) = 3
    /\ RecordOf("acc_1", Min(StoredDates)).end_of_day_balance
           # Val(accounts["acc_1"].balance_amount)

\* C28: the series of every open account spans the same days, from the earliest
\* to the latest date of a posted transaction of any account; for an account
\* whose own earliest transaction is dated e, every emitted day before e carries
\* the balance end_of_day_balance(e) minus the sum of the account's transactions
\* on e.
SharedDateAxis ==
    recon.outcome = "returned" =>
        \A a \in AccountIds :
            IsOpen(a) =>
                /\ {recon.daily_balances[i].date :
                        i \in {j \in 1..Len(recon.daily_balances) :
                                  recon.daily_balances[j].account_id = a}}
                       = Min(StoredDates)..Max(StoredDates)
                /\ OwnDates(a) # {} =>
                       \A d \in Min(StoredDates)..(Min(OwnDates(a)) - 1) :
                           RecordOf(a, d).end_of_day_balance =
                               RecordOf(a, Min(OwnDates(a))).end_of_day_balance
                                   - SumAmounts(transactions_today(transactions, a,
                                                    Min(OwnDates(a))), transactions)

\* acc_2 is open and its first transaction is dated two days after the first
\* transaction of acc_1
SharedDateAxisWitness ==
    /\ recon.outcome = "returned"
    /\ IsOpen("acc_2")
    /\ OwnDates("acc_2") # {}
    /\ Min(StoredDates) = 2
    /\ Min(OwnDates("acc_2")) = 4
    /\ Cardinality(RecordsOf("acc_2", 2)) = 1
    /\ Cardinality(RecordsOf("acc_2", 3)) = 1

\* C29: for a run that ended 'completed', new_transactions plus
\* updated_transactions is transactions_synced, the number of upserts of the
\* run, and new_transactions is the number of transaction rows in the store
\* after the run minus the number before it.
RunStatistics ==
    run.ended = "completed" =>
        LET row == sync_runs[run.sync_run_id]
            upserts == {<<i, id>> : i \in 1..Len(run.passes), id \in TxnIds}
        IN /\ row.new_transactions + row.updated_transactions = row.transactions_synced
           /\ row.transactions_synced =
                  Cardinality({x \in upserts : x[2] \in run.passes[x[1]].loaded})
           /\ row.new_transactions =
                  BagCardinality(transactions) - BagCardinality(run.rows_at_start)

\* the second run ended 'completed' with new and with updated transactions
RunStatisticsWitness ==
    /\ run.ended = "completed"
    /\ run.sync_run_id = 2
    /\ sync_runs[2].new_transactions >= 1
    /\ sync_runs[2].updated_transactions >= 2
    /\ BagCardinality(run.rows_at_start) >= 2

(***************************************************************************)
(* Runs against a source whose account listing changes.                    *)
(***************************************************************************)
\* the listings: acc_1 under either name, each account open or closed
Listings ==
    {[a \in AccountIds |-> IF a = "acc_1" THEN [name |-> n, status |-> s1]
                           ELSE [name |-> "Savings", status |-> s2]] :
        n \in {"Checking", "Main"}, s1 \in {"open", "closed"}, s2 \in {"open", "closed"}}

ListingSources ==
    {[a \in AccountIds |-> IF a = "acc_1" THEN s1 ELSE s2] :
        s1 \in SubSources("acc_1", <<"txn_9", "txn_10">>, {"absent", "posted"}),
        s2 \in SubSources("acc_2", <<"txn_20">>, {"absent", "posted"})}

\* between two runs the source lists the accounts differently, or holds other
\* transactions; what is kept of the last run for the record is dropped
ListingChange ==
    /\ run.phase = "idle"
    /\ Len(sync_runs) >= 1
    /\ Len(sync_runs) < MaxSyncRuns
    /\ \E l \in Listings, s \in ListingSources :
           /\ <<l, s>> # <<listing, source>>
           /\ listing' = l
           /\ source' = s
    /\ run' = IdleRun
    /\ UNCHANGED <<transactions, accounts, sync_runs, paging, now, calls, fetch, recon>>

InitListing ==
    /\ transactions = EmptyBag
    /\ accounts = NoAccounts
    /\ sync_runs = << >>
    /\ source \in ListingSources
    /\ paging = "exclusive"
    /\ now = 0
    /\ run = IdleRun
    /\ calls = << >>
    /\ fetch = IdleFetch
    /\ recon = IdleRecon
    /\ listing = DefaultListing

NextListing ==
    \/ StartRun(MaxSyncRuns, {TicksPerDay})
    \/ LoadAccounts
    \/ ProcessAccount
    \/ CompleteRun
    \/ FailRun
    \/ Crash
    \/ ListingChange

SpecListing == InitListing /\ [][NextListing]_vars

\* C30: in every run that got past the account listing, full or incremental,
\* the stored name, status and balance of each account get_accounts returned
\* are the values the source returned in that run, and they are stored before
\* any transaction of the run is upserted.
MetadataRefresh ==
    /\ run.phase = "accounts" =>
           \A a \in Range(run.accounts) :
               /\ accounts[a] # NULL
               /\ accounts[a].name = listing[a].name
               /\ accounts[a].status = listing[a].status
               /\ accounts[a].balance_amount = Some(get_account_balance(source[a]))
    /\ run.phase = "started" => transactions = run.rows_at_start

\* an incremental run has listed the accounts and made no pass yet: acc_1, which
\* an earlier run stored as the open account Checking, is now stored as the
\* closed account Main with the balance of the transaction that is new
MetadataRefreshWitness ==
    /\ run.phase = "accounts"
    /\ run.idx = 1
    /\ run.sync_type = "incremental"
    /\ run.cursors_at_start["acc_1"] = <<Some(5), Some("txn_9")>>
    /\ accounts["acc_1"].name = "Main"
    /\ accounts["acc_1"].status = "closed"
    /\ accounts["acc_1"].balance_amount = Some(2500)
    /\ ~transaction_exists(transactions, "txn_10")

(***************************************************************************)
(* Runs that go on: a run that is neither stopped nor failing takes its    *)
(* next step.                                                              *)
(***************************************************************************)
\* the interpreter runs on: the statements of sync_teller_data are executed one
\* after the other until it returns or raises
RunGoesOn ==
    /\ WF_vars(LoadAccounts)
    /\ WF_vars(ProcessAccount)
    /\ WF_vars(CompleteRun)

SpecLive == InitListing /\ [][NextFault]_vars /\ RunGoesOn

\* C31: every started sync run whose process does not crash eventually reaches
\* status 'completed' or 'failed'; its row is 'completed' exactly when
\* sync_teller_data returned normally and 'failed' exactly when it raised.
RunLiveness ==
    /\ \A i \in 1..MaxSyncRuns :
           [](Len(sync_runs) >= i =>
                 <>(/\ Len(sync_runs) >= i
                    /\ \/ sync_runs[i].crashed
                       \/ sync_runs[i].status \in {"completed", "failed"}))
    /\ [](run.ended = "completed" => sync_runs[run.sync_run_id].status = "completed")
    /\ [](run.ended \in {"failed", "raised"} => sync_runs[run.sync_run_id].status = "failed")

(***************************************************************************)
(* Repeated calls of reconstruct_daily_balances on one store.              *)
(***************************************************************************)
MaxReconCalls == 2  \* calls of reconstruct_daily_balances on one store

\* account_balances as the while loop leaves it, written to the accounts
ReconstructInPlace ==
    /\ Len(calls) < MaxReconCalls
    /\ calls' = Append(calls, reconstruct_daily_balances(transactions, accounts))
    /\ accounts' = [a \in AccountIds |->
           IF IsOpen(a) /\ PostedRows(transactions) # {}
           THEN [accounts[a] EXCEPT !.balance_amount =
                    Some(current_balance(accounts, a)
                         - SumAmounts({r \in PostedRows(transactions) : r.account_id = a},
                                      transactions))]
           ELSE accounts[a]]
    /\ UNCHANGED listing
    /\ UNCHANGED <<transactions, sync_runs, source, paging, now, run, fetch, recon>>

\* one call of reconstruct_daily_balances: the session executes three SELECT
\* statements and nothing else; what the call returned is logged
ReconstructCall ==
    /\ Len(calls) < MaxReconCalls
    /\ calls' = Append(calls, reconstruct_daily_balances(transactions, accounts))
    /\ UNCHANGED listing
    /\ UNCHANGED <<transactions, accounts, sync_runs, source, paging, now, run, fetch, recon>>

NextPure == ReconstructCall

SpecPure == InitRecon /\ [][NextPure]_vars

CallsFor(id) == {i \in 1..Len(calls) : calls[i].payload.id = id}

\* C33: when load_transaction is called for an id that is already stored, the
\* stored row keeps its account_id and its date, also when the payload carries
\* another account_id or date; amount and status (and the columns updated like
\* them) take the payload's values.
UpsertFrame ==
    \A r \in Rows(transactions) :
        /\ CallsFor(r.id) # {}
        /\ r.account_id = calls[Min(CallsFor(r.id))].payload.account_id
        /\ r.date = calls[Min(CallsFor(r.id))].payload.date
        /\ r.amount = calls[Max(CallsFor(r.id))].payload.amount
        /\ r.status = calls[Max(CallsFor(r.id))].payload.status

\* an id stored for acc_1 on 2024-01-04 was upserted again with a payload of
\* acc_2, 2024-01-05 and another amount
UpsertFrameWitness ==
    /\ Len(calls) = 2
    /\ calls[2].action = "updated"
    /\ calls[1].payload.id = calls[2].payload.id
    /\ calls[1].payload.account_id = "acc_1" /\ calls[2].payload.account_id = "acc_2"
    /\ calls[1].payload.date = 4 /\ calls[2].payload.date = 5
    /\ calls[1].payload.amount # calls[2].payload.amount
    /\ \E r \in Rows(transactions) : r.account_id = "acc_1" /\ r.date = 4

\* the sync state of an account: its cursor and last_synced_at
SyncState(row) ==
    IF row = NULL THEN <<NULL, NULL, NULL>>
    ELSE <<row.last_transaction_date, row.last_transaction_id, row.last_synced_at>>

\* C34: load_account on an account that is already stored leaves its
\* last_transaction_date, last_transaction_id and last_synced_at unchanged, and
\* across any sequence of runs these fields change only in the pass over the
\* account, where update_account_sync_state writes them.
AccountRefreshFrame ==
    [][\A a \in AccountIds :
          /\ (run.phase = "started" /\ run'.phase = "accounts") =>
                 SyncState(accounts'[a]) = SyncState(accounts[a])
          /\ SyncState(accounts'[a]) # SyncState(accounts[a]) =>
                 /\ run.phase = "accounts"
                 /\ run.idx <= Len(run.accounts)
                 /\ a = run.accounts[run.idx]
                 /\ run'.idx = run.idx + 1
                 /\ accounts'[a] = update_account_sync_state(accounts[a],
                        latest_transaction(transactions_to_load(run.sync_type, transactions,
                            accounts[a], run'.fetched)), now)]_vars

\* the second run has refreshed acc_1, now listed as the closed account Main,
\* and the row still carries the cursor and the sync time the first run wrote
AccountRefreshFrameWitness ==
    /\ run.phase = "accounts"
    /\ run.idx = 1
    /\ run.sync_run_id = 2
    /\ accounts["acc_1"].name = "Main"
    /\ accounts["acc_1"].status = "closed"
    /\ accounts["acc_1"].balance_amount = Some(0)
    /\ SyncState(accounts["acc_1"]) = <<Some(5), Some("txn_10"), Some(TicksPerDay)>>

\* C35: in every committed state reached by any sequence of sync runs, each
\* account whose cursor is set has last_transaction_id equal to the id of a
\* transaction stored for that account, and last_transaction_date is the date
\* that transaction carried in the fetch of the pass that set the cursor.
CursorRefersToStored ==
    /\ [](\A a \in AccountIds :
             (accounts[a] # NULL /\ accounts[a].last_transaction_id # NULL) =>
                 /\ accounts[a].last_transaction_date # NULL
                 /\ \E r \in RowsOf(transactions, a) :
                        r.id = Val(accounts[a].last_transaction_id))
    /\ [][\A a \in AccountIds :
              (Cursor(accounts'[a]) # Cursor(accounts[a])) =>
                  \E i \in 1..Len(run'.fetched) :
                      /\ accounts'[a].last_transaction_id = Some(run'.fetched[i].id)
                      /\ accounts'[a].last_transaction_date = Some(run'.fetched[i].date)
                      /\ run'.fetched[i].account_id = a]_vars

\* a run moved the cursor of acc_1 to txn_11 and then failed on a store write in
\* the pass over acc_2, after it had upserted for acc_2
CursorRefersToStoredWitness ==
    /\ run.ended = "failed"
    /\ run.in_flight = Some("acc_2")
    /\ run.cursors_at_start["acc_1"] = <<Some(5), Some("txn_9")>>
    /\ Cursor(accounts["acc_1"]) = <<Some(6), Some("txn_11")>>
    /\ transaction_exists(transactions, "txn_20")
    /\ accounts["acc_2"].last_transaction_id = NULL

(***************************************************************************)
(* get_all_transactions against a source that answers a page request with  *)
(* any page of its records, whatever the cursor.                           *)
(***************************************************************************)
\* the pages a source may return: up to PageSize of its records, in any order,
\* a record more than once
AnyPages(src) == UNION {[1..k -> Range(src)] : k \in 0..PageSize}

InitAnySource ==
    /\ transactions = EmptyBag
    /\ accounts = NoAccounts
    /\ sync_runs = << >>
    /\ \E src \in SourcesOf("acc_1", TxnOrder, {"posted", "pending"}, BOOLEAN) :
           source = [a \in AccountIds |-> IF a = "acc_1" THEN src ELSE << >>]
    /\ paging = "exclusive"
    /\ now = 0
    /\ run = IdleRun
    /\ calls = << >>
    /\ fetch = IdleFetch
    /\ recon = IdleRecon
    /\ listing = DefaultListing

\* one pass of the while loop in which the page request succeeds and the source
\* answers with the page data
AnyPageRequest ==
    /\ fetch.pc = "loop"
    /\ Len(fetch.requests) < MaxRequests
    /\ \E data \in AnyPages(source["acc_1"]) :
           LET step == PageStep(fetch.all_transactions, data)
           IN fetch' = [pc |-> IF step.more THEN "loop" ELSE "done",
                        all_transactions |-> step.all,
                        requests |-> Append(fetch.requests,
                                            from_id_param(fetch.all_transactions)),
                        error |-> FALSE]
    /\ UNCHANGED listing
    /\ UNCHANGED <<transactions, accounts, sync_runs, source, paging, now, run, calls, recon>>

NextAnySource == CallGetAll \/ AnyPageRequest \/ PageError

SpecAnySource == InitAnySource /\ [][NextAnySource]_vars

\* C36: for every source behaviour, including a page that lists the same
\* transaction id twice, the list get_all_transactions returns holds no two
\* transactions with the same id.
NoDuplicatesAnySource == NoDuplicateIds(fetch.all_transactions)

\* the ids of the valid, posted records a source exposes
ValidPostedIds(src) == {d.id : d \in {x \in Range(src) : x.status = "posted" /\ x.valid}}

\* C37: for every source that exposes finitely many distinct transaction ids,
\* whatever pages it returns for whatever cursor, get_all_transactions has
\* returned after at most (number of distinct valid posted ids + 1) page
\* requests, because every pass of the loop after which it goes on adds at
\* least one id not accumulated before.
PaginationTerminates ==
    /\ [](Len(fetch.requests) <= Cardinality(ValidPostedIds(source["acc_1"])) + 1)
    /\ [](Len(fetch.requests) = Cardinality(ValidPostedIds(source["acc_1"])) + 1
             => fetch.pc = "done")
    /\ [](fetch.pc = "loop" => Len(fetch.requests) < MaxRequests)
    /\ [][(fetch.pc = "loop" /\ fetch'.pc = "loop") =>
              /\ AccumulatedIds(fetch) \subseteq AccumulatedIds(fetch')
              /\ AccumulatedIds(fetch') # AccumulatedIds(fetch)]_vars

\* a call has made as many requests as the bound allows: each of the first
\* three brought one new id on a full page, the fourth brought none
PaginationTerminatesWitness ==
    /\ fetch.pc = "done"
    /\ ~fetch.error
    /\ Cardinality(ValidPostedIds(source["acc_1"])) = 3
    /\ Len(fetch.requests) = 4
    /\ Cardinality(AccumulatedIds(fetch)) = 3

(***************************************************************************)
(* The reference query of create_balance_query, as the store evaluates it. *)
(***************************************************************************)
\* the recursive CTE date_series: date_val from MIN(date) up to max_date
RECURSIVE date_series(_, _)
date_series(date_val, max_date) ==
    IF date_val < max_date THEN {date_val} \cup date_series(date_val + 1, max_date)
    ELSE {date_val}

\* the CTE daily_transactions: date_series CROSS JOIN accounts LEFT JOIN
\* transactions, WHERE a.status = 'open', grouped by date and account
daily_transactions(tbl, acct) ==
    IF PostedRows(tbl) = {} THEN {}
    ELSE {[date |-> d, account_id |-> a,
           current_balance |-> acct[a].balance_amount,
           daily_change |-> SumAmounts(transactions_today(tbl, a, d), tbl),
           transaction_count |->
               BagCardinality([r \in transactions_today(tbl, a, d) |-> tbl[r]])] :
              d \in date_series(Val(earliest_date(tbl)), Val(latest_date(tbl))),
              a \in Range(OpenAccounts(acct))}

RECURSIVE SumDailyChange(_)
SumDailyChange(S) ==
    IF S = {} THEN 0
    ELSE LET x == CHOOSE y \in S : TRUE IN x.daily_change + SumDailyChange(S \ {x})

WindowSumAscending(rows, x) ==
    SumDailyChange({y \in rows : y.account_id = x.account_id /\ y.date <= x.date})

\* SUM(daily_change) OVER (PARTITION BY account_id ORDER BY date DESC
\* ROWS BETWEEN UNBOUNDED PRECEDING AND CURRENT ROW)
WindowSum(rows, x) ==
    SumDailyChange({y \in rows : y.account_id = x.account_id /\ y.date >= x.date})

\* the rows the query of create_balance_query returns; arithmetic on a NULL
\* current_balance gives NULL
create_balance_query(tbl, acct) ==
    {[date |-> x.date, account_id |-> x.account_id,
      end_of_day_balance |->
          IF x.current_balance = NULL THEN NULL
          ELSE Some(Val(x.current_balance) - WindowSum(daily_transactions(tbl, acct), x)
                    + x.daily_change),
      daily_change |-> x.daily_change,
      transaction_count |-> x.transaction_count] : x \in daily_transactions(tbl, acct)}

\* the records reconstruct_daily_balances returned, as rows of the query
ReconRows ==
    {[date |-> recon.daily_balances[i].date,
      account_id |-> recon.daily_balances[i].account_id,
      end_of_day_balance |-> Some(recon.daily_balances[i].end_of_day_balance),
      daily_change |-> recon.daily_balances[i].daily_change,
      transaction_count |-> recon.daily_balances[i].transaction_count] :
         i \in 1..Len(recon.daily_balances)}

NextBalance ==
    \/ StartRun(1, {TicksPerDay})
    \/ LoadAccounts
    \/ ProcessAccount
    \/ CompleteRun
    \/ FailRun

SpecBalance == InitAnySource /\ [][NextBalance]_vars

\* the records of the source the balance probe looks at: those among its first
\* BalanceProbeCount that are not pending, pass validation and carry a
\* running_balance
ProbeCandidates(src) ==
    {i \in 1..Len(src) :
        /\ i <= BalanceProbeCount
        /\ src[i].status # "pending"
        /\ src[i].valid
        /\ src[i].running_balance # NULL}

====
